---- MODULE Spec2Model ----
(***************************************************************************)
(* A model of organyacat, a sequencer and software synthesizer for Organya *)
(* songs: the loaders (song.rs, Player::read_soundbank), the sequencer     *)
(* (Player::seek, tick, tick_melodies, tick_percussions) and the voices    *)
(* (sound.rs).                                                             *)
(*                                                                         *)
(* Representation of the machine types:                                    *)
(*  - u8/u16/i16/usize values are integers; a u32 is the pair <<hi, lo>>   *)
(*    of its 16-bit halves, so that the whole 32-bit range is there;       *)
(*  - an f32 level 10^(db/2000) is the record Level(db), the products     *)
(*    volume * pan add the exponents, and a gain on its way to a target    *)
(*    is the exact blend of GainStep (real arithmetic);             *)
(*  - sub_position and position_increment are the numerators of fractions *)
(*    over the output sample rate (real arithmetic);                       *)
(*  - samples_to_next_tick (f64) is kept in units of 1 / (10 * TickUnit) of *)
(*    a sample: the tick length 44100 * tempo_ms / 1000 is 441 * tempo_ms  *)
(*    tenths, plus or minus one unit for the rounding of the f64 quotient  *)
(*    (every later sum and difference of the counter is exact in f64);     *)
(*  - a ring sample is the i8 numerator of the float sample / 128;         *)
(*  - the 25600-byte melody block of a soundbank is named by a tag and its *)
(*    bytes are given by BankByte; a voice's melody wavetable is the       *)
(*    descriptor of the copy loop that filled it.                          *)
(* A panic ends the process: it is recorded in call.res and no operation   *)
(* runs after it.  Arithmetic overflow panics when the build has overflow  *)
(* checks (overflow_checks) and wraps otherwise.                           *)
(***************************************************************************)
EXTENDS Integers, Sequences, FiniteSets, TLC

PROPERTY_UNUSED == 255

SAMPLE_RATE == 44100

SIZE_TABLE == <<256, 256, 128, 128, 64, 32, 16, 8>>

FREQ_TABLE == <<262, 277, 294, 311, 330, 349, 370, 392, 415, 440, 466, 494>>

PANNING_TABLE == <<0, 43, 86, 129, 172, 215, 256, 297, 340, 383, 426, 469, 512>>

MELODY_WAVE_LEN == 25600

NUM_PERCUSSION_WAVES == 42

SONG_HEADER_LEN == 114

\* Player::set_sample_rate: volume_ramp = sample_rate / 250
volume_ramp == SAMPLE_RATE \div 250

Min(a, b) == IF a < b THEN a ELSE b

Max(a, b) == IF a > b THEN a ELSE b

(***************************************************************************)
(* 32-bit unsigned integers as <<hi, lo>>.                                 *)
(***************************************************************************)
U32(n) == <<n \div 65536, n % 65536>>

U32Max == <<65535, 65535>>

U32Le(a, b) == a[1] < b[1] \/ (a[1] = b[1] /\ a[2] <= b[2])

U32Ge(a, b) == U32Le(b, a)

\* a + 1, wrapping
U32Inc(a) ==
    IF a[2] < 65535 THEN <<a[1], a[2] + 1>>
    ELSE <<(a[1] + 1) % 65536, 0>>

(***************************************************************************)
(* Bytes.  d is a sequence of bytes 0..255, o a 0-based offset into it.    *)
(***************************************************************************)
ToI8(b) == IF b >= 128 THEN b - 256 ELSE b

\* i8::wrapping_add(x, d)
WrapI8(x) == ((x + 128) % 256) - 128

U16LeAt(d, o) == d[o + 1] + 256 * d[o + 2]

U32LeAt(d, o) == <<d[o + 3] + 256 * d[o + 4], d[o + 1] + 256 * d[o + 2]>>

U16Bytes(n) == <<n % 256, n \div 256>>

U32Bytes(a) == U16Bytes(a[2]) \o U16Bytes(a[1])

(***************************************************************************)
(* Soundbank contents.  A bank's first 25600 bytes are named by a tag;     *)
(* tag 0 is the all-zero block (also the player's initial                  *)
(* melody_wave_data).                                                      *)
(***************************************************************************)
BankByte(tag, off) == IF tag = 0 THEN 0 ELSE (off * 7 + tag * 61 + (off \div 256) * 3) % 256

\* melody_wave_data[off] of a block copied from bank `tag` (bytemuck cast u8 -> i8)
MelodyWaveAt(tag, off) == ToI8(BankByte(tag, off))

(***************************************************************************)
(* Wavetables (Sound::data).                                               *)
(***************************************************************************)
ZeroData(n) == [kind |-> "zero", len |-> n, bank |-> 0, base |-> 0, stride |-> 0, pcm |-> <<>>]

\* the melody copy loop of load_instruments: data[k] = melody_wave_data[base + wave_index_k]
WaveData(n, tag, base, stride) ==
    [kind |-> "wave", len |-> n, bank |-> tag, base |-> base, stride |-> stride, pcm |-> <<>>]

PcmData(s) == [kind |-> "pcm", len |-> Len(s), bank |-> 0, base |-> 0, stride |-> 0, pcm |-> s]

\* wave_index without the & 0xff: a fault that C22_Wavetables detects
WaveIndexOff(stride, k) == k * stride

\* wave_index after k rounds of  wave_index = (wave_index + stride) & 0xff
RECURSIVE WaveIndex(_, _)
WaveIndex(stride, k) == IF k = 0 THEN 0 ELSE (WaveIndex(stride, k - 1) + stride) % 256

DataAt(d, k) ==
    CASE d.kind = "zero" -> 0
      [] d.kind = "wave" -> MelodyWaveAt(d.bank, d.base + WaveIndex(d.stride, k))
      [] d.kind = "pcm" -> d.pcm[k + 1]

(***************************************************************************)
(* Levels and gains (f32 volumes).                                         *)
(***************************************************************************)
LevelZero == [zero |-> TRUE, db |-> 0]

\* f32::powf(10.0, db / 2000.0)
Level(db) == [zero |-> FALSE, db |-> db]

LevelMul(a, b) == IF a.zero \/ b.zero THEN LevelZero ELSE Level(a.db + b.db)

\* a gain that is exactly the level l
Gain(l) == [lvl |-> l, from |-> <<>>, ramp |-> <<>>]

\* The gain lvl + (from[1] - lvl) * r, where r is the product of b / a over the pairs
\* <<a, b>> of ramp: a pair is a run of ramp steps with volume_ticks = a, a - 1, .., b + 1.
\* One more step, with volume_ticks = k:
RampAfter(ramp, k) ==
    IF ramp # <<>> /\ ramp[Len(ramp)][2] = k
    THEN [ramp EXCEPT ![Len(ramp)] = <<@[1], k - 1>>]
    ELSE Append(ramp, <<k, k - 1>>)

\* v + (target - v) / k
GainStep(v, target, k) ==
    IF k = 1 THEN Gain(target)
    ELSE IF v.lvl = target
         THEN IF v.from = <<>> THEN v ELSE [v EXCEPT !.ramp = RampAfter(@, k)]
         ELSE [lvl |-> target, from |-> <<v>>, ramp |-> <<<<k, k - 1>>>>]

(***************************************************************************)
(* sound.rs: one voice.                                                    *)
(***************************************************************************)
RingZero == <<0, 0, 0, 0, 0, 0, 0, 0>>

\* #[derive(Default)] Sound
SoundDefault ==
    [data |-> ZeroData(0), samples |-> RingZero, position |-> 0, sub_position |-> 0,
     frequency |-> 0, position_increment |-> 0, ring |-> 0,
     playing |-> FALSE, looping |-> FALSE,
     volume |-> LevelZero, pan_left |-> LevelZero, pan_right |-> LevelZero,
     volume_left |-> Gain(LevelZero), volume_right |-> Gain(LevelZero),
     target_volume_left |-> LevelZero, target_volume_right |-> LevelZero,
     volume_ticks |-> 0, total_samples |-> U32(0), silence_timer |-> 0]

\* position_increment = frequency / out_sample_rate, as a numerator over SAMPLE_RATE
set_frequency(s, frequency) ==
    [s EXCEPT !.frequency = frequency, !.position_increment = frequency]

\* the tail of set_volume and set_pan with the two branches exchanged: a fault that
\* C14_InstantOrRamp detects
ApplyTargetsOff(s, out_vol_ramp) ==
    IF s.total_samples # U32(0)
    THEN [s EXCEPT !.volume_left = Gain(s.target_volume_left),
                   !.volume_right = Gain(s.target_volume_right),
                   !.volume_ticks = 0]
    ELSE [s EXCEPT !.volume_ticks = out_vol_ramp]

\* the instant-or-ramp tail shared by set_volume and set_pan
ApplyTargets(s, out_vol_ramp) ==
    IF s.total_samples = U32(0)
    THEN [s EXCEPT !.volume_left = Gain(s.target_volume_left),
                   !.volume_right = Gain(s.target_volume_right),
                   !.volume_ticks = 0]
    ELSE [s EXCEPT !.volume_ticks = out_vol_ramp]

set_volume(s, volume_db, out_vol_ramp) ==
    LET db == Max(-10000, Min(0, volume_db))
        v == Level(db)
        t == [s EXCEPT !.volume = v,
                       !.target_volume_left = LevelMul(v, s.pan_left),
                       !.target_volume_right = LevelMul(v, s.pan_right)]
    IN  ApplyTargets(t, out_vol_ramp)

set_pan(s, pan_db, out_vol_ramp) ==
    LET neg == IF pan_db < 0 THEN pan_db ELSE -pan_db
        db == Max(-10000, neg)
        pl == IF pan_db < 0 THEN Level(0) ELSE Level(db)
        pr == IF pan_db < 0 THEN Level(db) ELSE Level(0)
        t == [s EXCEPT !.pan_left = pl, !.pan_right = pr,
                       !.target_volume_left = LevelMul(s.volume, pl),
                       !.target_volume_right = LevelMul(s.volume, pr)]
    IN  ApplyTargets(t, out_vol_ramp)

\* Sound::init
init(s, sample_count, out_vol_ramp) ==
    LET a == [s EXCEPT !.data = ZeroData(sample_count), !.samples = RingZero,
                       !.position = 0, !.sub_position = 0, !.silence_timer = 0,
                       !.total_samples = U32(0), !.frequency = 22050,
                       !.volume = Level(0), !.pan_left = Level(0), !.pan_right = Level(0)]
        b == set_pan(set_volume(set_frequency(a, 22050), 0, out_vol_ramp), 0, out_vol_ramp)
    IN  [b EXCEPT !.volume_left = Gain(b.target_volume_left),
                  !.volume_right = Gain(b.target_volume_right),
                  !.playing = FALSE, !.looping = FALSE, !.volume_ticks = 0, !.ring = 0]

play(s, looping) ==
    LET a == IF ~s.playing
             THEN [s EXCEPT !.position = 0,
                            !.sub_position = IF s.silence_timer = 0 THEN 0 ELSE @]
             ELSE s
    IN  [a EXCEPT !.playing = TRUE, !.looping = looping]

\* stop with seven samples of silence: a fault that C23_InactiveRingIsZero detects
stop_short(s) == [s EXCEPT !.playing = FALSE, !.silence_timer = 7]

stop(s) == [s EXCEPT !.playing = FALSE, !.silence_timer = 8]

\* the volume ramp step at the head of write_sample
RampStep(s) ==
    IF s.volume_ticks > 0
    THEN [s EXCEPT !.volume_left = GainStep(@, s.target_volume_left, s.volume_ticks),
                   !.volume_right = GainStep(@, s.target_volume_right, s.volume_ticks),
                   !.volume_ticks = @ - 1]
    ELSE s

\* the ring samples stored for the integer positions last_position + i .. last_position + n - 1
RECURSIVE RingFill(_, _, _, _)
RingFill(s, last_position, i, n) ==
    IF i >= n THEN s
    ELSE LET r == (s.ring + 1) % 8
             v == IF s.playing
                  THEN IF s.looping
                       THEN DataAt(s.data, (last_position + i) % s.data.len)
                       ELSE IF last_position + i >= s.data.len THEN 0
                            ELSE DataAt(s.data, last_position + i)
                  ELSE 0
             t == [s EXCEPT !.ring = r, !.samples[r + 1] = v,
                            !.silence_timer = IF s.playing THEN @ ELSE Max(0, @ - 1)]
         IN  RingFill(t, last_position, i + 1, n)

\* the end-of-sample handling with > for >=: a fault that C16_StopsRoundedUp detects
EndOfSampleOff(s) ==
    IF s.playing
    THEN IF s.position > s.data.len
         THEN IF s.looping
              THEN [s EXCEPT !.position = @ % s.data.len]
              ELSE [s EXCEPT !.playing = FALSE, !.silence_timer = 8]
         ELSE s
    ELSE [s EXCEPT !.position = 0]

\* the end-of-sample handling of write_sample
EndOfSample(s) ==
    IF s.playing
    THEN IF s.position >= s.data.len
         THEN IF s.looping
              THEN [s EXCEPT !.position = @ % s.data.len]
              ELSE [s EXCEPT !.playing = FALSE, !.silence_timer = 8]
         ELSE s
    ELSE [s EXCEPT !.position = 0]

\* the early return with >= for >: a fault that C13_IdleNoOp detects
IdleOff(s) == ~(s.playing \/ s.silence_timer >= 0)

\* the voice is skipped by write_sample
Idle(s) == ~(s.playing \/ s.silence_timer > 0)

\* where write_sample panics on s: "" when it does not
WriteSamplePanic(s, oc) ==
    IF Idle(s) THEN ""
        ELSE IF s.playing /\ s.looping /\ s.data.len = 0
             THEN "wrapping_rem by zero"
        ELSE IF oc /\ s.total_samples = U32Max THEN "total_samples overflow"
        ELSE ""

\* sub_position %= 1.0 with > for >=: a fault that C12_SubPositionBelowOne detects
FractOff(sub) == IF sub > SAMPLE_RATE THEN sub % SAMPLE_RATE ELSE sub

\* sub_position %= 1.0, on numerators over SAMPLE_RATE
Fract(sub) == sub % SAMPLE_RATE

\* Sound::write_sample, the voice after the call
write_sample(s) ==
    IF Idle(s) THEN s
    ELSE LET a == RampStep(s)
             sub == a.sub_position + a.position_increment
             crossed == sub \div SAMPLE_RATE
             b == [a EXCEPT !.position = @ + crossed, !.sub_position = Fract(sub)]
             c == RingFill(b, a.position, 0, crossed)
             d == [c EXCEPT !.total_samples = U32Inc(@)]
         IN  EndOfSample(d)

\* Interpolation::None: the value write_sample mixes, as a numerator over 128
interpolate_none(s) == s.samples[s.ring + 1]

\* Interpolation::Lagrange: the cubic through the ring samples a, b, c, d (d the
\* newest) at sub_position, kept as its arguments <<a, b, c, d, sub_position>>
interpolate_lagrange(s) ==
    LET at(k) == s.samples[((s.ring + 8 - k) % 8) + 1]
    IN  <<at(3), at(2), at(1), at(0), s.sub_position>>

Interpolations == {"None", "Lagrange"}

\* the mixed sample: <<v>> is v / 128, a 5-tuple is the Lagrange cubic
interpolate(s, interpolation) ==
    IF interpolation = "None" THEN <<interpolate_none(s)>> ELSE interpolate_lagrange(s)

\* a stereo accumulator: each ear is the f32 sum, in order, of the products
\* sample * gain added to 0.0
OutZero == [l |-> <<>>, r |-> <<>>]

\* write_sample, what the call adds to the accumulator acc
MixInto(acc, s, interpolation) ==
    IF Idle(s) THEN acc
    ELSE LET a == RampStep(s)
             sample_mixed == interpolate(s, interpolation)
         IN  [l |-> Append(acc.l, [sample |-> sample_mixed, gain |-> a.volume_left]),
              r |-> Append(acc.r, [sample |-> sample_mixed, gain |-> a.volume_right])]

(***************************************************************************)
(* song.rs: the song and its reader.                                       *)
(***************************************************************************)
\* Event::default()
EventDefault == [position |-> U32(0), pitch |-> 0, length |-> 0, volume |-> 0, pan |-> 0]

Channel(instrument, finetune, pizzicato, events) ==
    [instrument |-> instrument, finetune |-> finetune, pizzicato |-> pizzicato,
     events |-> events]

\* Song::default()
SongDefault ==
    [tempo_ms |-> 125, repeat_start |-> U32(0), repeat_end |-> U32(1600),
     beats_per_measure |-> 1, steps_per_beat |-> 1,
     channels |-> [i \in 1..16 |->
        Channel(IF i <= 8 THEN (i - 1) * 11 ELSE <<0, 2, 5, 6, 4, 8, 0, 0>>[i - 8],
                1000, FALSE, <<>>)]]

\* u8 subtraction, multiplication and addition of the version computation:
\* [ovf |-> an operation overflowed, v |-> the wrapped result]
ReadVersion(d) ==
    LET d1 == d[5] - 48
        m == (d1 % 256) * 10
        d2 == d[6] - 48
        sum == (m % 256) + (d2 % 256)
    IN  [ovf |-> d1 < 0 \/ m > 255 \/ d2 < 0 \/ sum > 255, v |-> sum % 256]

\* offset of channel i's header (i in 0..15)
ChannelHeaderAt(i) == 18 + 6 * i

EventCount(d, i) == U16LeAt(d, ChannelHeaderAt(i) + 4)

\* offset of channel i's event table: the cursor after the skips of channels 0..i-1
RECURSIVE TableAt(_, _)
TableAt(d, i) == IF i = 0 THEN SONG_HEADER_LEN ELSE TableAt(d, i - 1) + 8 * EventCount(d, i - 1)

\* the reads of event j of a table of len events at base stay inside d
EventReadsOk(d, base, len, j) ==
    /\ base + j * 4 + 4 <= Len(d)
    /\ base + len * 4 + j < Len(d)
    /\ base + len * 5 + j < Len(d)
    /\ base + len * 6 + j < Len(d)
    /\ base + len * 7 + j < Len(d)

\* channel i's table is read and skipped without a slice panic
TableReadsOk(d, i) ==
    LET len == EventCount(d, i)
        base == TableAt(d, i)
    IN  /\ \A j \in 0..(len - 1) : EventReadsOk(d, base, len, j)
        /\ base + len * 8 <= Len(d)

\* NormalizePitch with > for >=: a fault that C10_Normalized detects
NormalizePitchOff(pitch) == IF pitch > 96 THEN PROPERTY_UNUSED ELSE pitch

NormalizePitch(pitch) == IF pitch >= 96 THEN PROPERTY_UNUSED ELSE pitch

NormalizeLength(length) == IF length = 0 THEN 1 ELSE length

NormalizePan(pan) == IF pan > 12 /\ pan # PROPERTY_UNUSED THEN 6 ELSE pan

ReadEvent(d, base, len, j) ==
    [position |-> U32LeAt(d, base + j * 4),
     pitch |-> NormalizePitch(d[base + len * 4 + j + 1]),
     length |-> NormalizeLength(d[base + len * 5 + j + 1]),
     volume |-> d[base + len * 6 + j + 1],
     pan |-> NormalizePan(d[base + len * 7 + j + 1])]

NormalizeInstrument(i, instrument) ==
    IF (i < 8 /\ instrument >= 100) \/ (i >= 8 /\ instrument >= 42) THEN 0 ELSE instrument

ReadChannel(d, i, version) ==
    LET h == ChannelHeaderAt(i)
        len == EventCount(d, i)
    IN  Channel(NormalizeInstrument(i, d[h + 3]),
                U16LeAt(d, h),
                IF version > 1 THEN d[h + 4] = 1 ELSE FALSE,
                [j \in 1..len |-> ReadEvent(d, TableAt(d, i), len, j - 1)])

Magic == <<79, 114, 103, 45>>

VersionOk(v) == v >= 1 /\ v <= 3

\* Song::read: [res |-> "ok" | "malformed" | "panic", site, song |-> the song after the call]
SongRead(song, d, oc) ==
    IF Len(d) < SONG_HEADER_LEN THEN [res |-> "malformed", site |-> "", song |-> song]
    ELSE IF SubSeq(d, 1, 4) # Magic THEN [res |-> "malformed", site |-> "", song |-> song]
    ELSE LET ver == ReadVersion(d) IN
    IF oc /\ ver.ovf THEN [res |-> "panic", site |-> "version overflow", song |-> song]
    ELSE IF ~VersionOk(ver.v) THEN [res |-> "malformed", site |-> "", song |-> song]
    ELSE IF \E i \in 0..15 : ~TableReadsOk(d, i)
         THEN [res |-> "panic", site |-> "event table out of range", song |-> song]
    ELSE [res |-> "ok", site |-> "",
          song |-> [tempo_ms |-> U16LeAt(d, 6),
                    beats_per_measure |-> d[9], steps_per_beat |-> d[10],
                    repeat_start |-> U32LeAt(d, 10), repeat_end |-> U32LeAt(d, 14),
                    channels |-> [i \in 1..16 |-> ReadChannel(d, i - 1, ver.v)]]]

(***************************************************************************)
(* player.rs: the carriers and the sequencer, as functions of the player's *)
(* fields.  Channel, group and voice indices are the code's (from 0); the  *)
(* tuples that hold them are indexed from 1.                               *)
(***************************************************************************)
\* Player::default(): one melody carrier
MelodyDefault ==
    [pitch |-> PROPERTY_UNUSED, volume |-> 200, pan |-> 6, index |-> 0, ticks |-> 0,
     alt |-> 0, muted |-> FALSE,
     snd_pairs |-> [j \in 1..8 |-> <<SoundDefault, SoundDefault>>]]

\* Player::default(): one percussion carrier
PercussionDefault ==
    [pitch |-> PROPERTY_UNUSED, volume |-> 200, pan |-> 6, index |-> 0, muted |-> FALSE,
     sound |-> SoundDefault]

\* the wavetable length of group j of a channel
SampleCount(j, pizzicato) ==
    IF pizzicato THEN SIZE_TABLE[j + 1] * (4 + j * 4) ELSE SIZE_TABLE[j + 1]

\* load_instruments, one voice of group j of a melody channel
LoadMelodyVoice(s, chan, j, wave_tag) ==
    LET n == SampleCount(j, chan.pizzicato)
    IN  [init(s, n, volume_ramp) EXCEPT
            !.data = WaveData(n, wave_tag, chan.instrument * 256, 256 \div SIZE_TABLE[j + 1])]

LoadMelody(m, chan, wave_tag) ==
    [m EXCEPT !.snd_pairs = [j \in 1..8 |->
        <<LoadMelodyVoice(m.snd_pairs[j][1], chan, j - 1, wave_tag),
          LoadMelodyVoice(m.snd_pairs[j][2], chan, j - 1, wave_tag)>>]]

LoadPercussion(p, chan, perc_waves) ==
    LET src == perc_waves[chan.instrument + 1]
    IN  [p EXCEPT !.sound = [init(p.sound, Len(src), volume_ramp) EXCEPT
            !.data = PcmData([k \in 1..Len(src) |-> WrapI8(src[k] - 128)])]]

\* Player::seek, the scan of one channel from event j on: index = j and break at the
\* first event at or after pos; index stays 0 when the scan runs off the end
RECURSIVE SeekScan(_, _, _)
SeekScan(events, pos, j) ==
    IF j >= Len(events) THEN 0
    ELSE IF U32Le(pos, events[j + 1].position) THEN j
    ELSE SeekScan(events, pos, j + 1)

\* SeekIndex with < for <=: a fault that C5_SeekOrZero detects
SeekIndexStrict(events, pos) ==
    LET hits == {j \in 0..(Len(events) - 1) :
                    ~U32Le(events[j + 1].position, pos)}
    IN  IF hits = {} THEN 0 ELSE CHOOSE j \in hits : \A k \in hits : j <= k

\* Player::seek, the index it gives one channel
SeekIndex(events, pos) == SeekScan(events, pos, 0)

\* Melody::pitch_alt_sound: the tuple indices of the selected voice
PitchGroup(m) == m.pitch \div 12

\* the voice pitch_alt_sound selects
pitch_alt_sound(m) == m.snd_pairs[PitchGroup(m) + 1][m.alt + 1]

WithPitchAltSound(m, s) == [m EXCEPT !.snd_pairs[PitchGroup(m) + 1][m.alt + 1] = s]

\* Release with stop() for play(false): a fault that C3_ReleasedIsOneShot detects
ReleaseStop(s) == stop(s)

\* what the sequencer does to a melody voice it lets go of
Release(s) == play(s, FALSE)

\* SwitchVoice with the flip of alt inside the release: a fault that C2_PizzicatoRetrigger detects
SwitchVoiceKeep(m, pizzicato) ==
    IF m.pitch # PROPERTY_UNUSED /\ ~pizzicato
    THEN [WithPitchAltSound(m, Release(pitch_alt_sound(m))) EXCEPT !.alt = 1 - @]
    ELSE m

\* SwitchVoice without the release of the old voice: a fault that C25_OneLoopingVoice
\* detects
SwitchVoiceOff(m, pizzicato) ==
    IF m.pitch # PROPERTY_UNUSED THEN [m EXCEPT !.alt = 1 - @] ELSE m

\* tick_melodies, a note-on over a held pitch: let go of the old voice, switch to the other
SwitchVoice(m, pizzicato) ==
    IF m.pitch # PROPERTY_UNUSED
    THEN LET a == IF ~pizzicato THEN WithPitchAltSound(m, Release(pitch_alt_sound(m))) ELSE m
         IN  [a EXCEPT !.alt = 1 - @]
    ELSE m

\* the voice frequency of group j for a pitch and a finetune (i32)
SndFreq(j, pitch, finetune) ==
    (SIZE_TABLE[j + 1] * FREQ_TABLE[(pitch % 12) + 1] * (2 ^ j)) \div 8 + (finetune - 1000)

FitsU16(n) == n >= 0 /\ n <= 65535

SetFrequencies(m, finetune) ==
    [m EXCEPT !.snd_pairs = [j \in 1..8 |->
        <<set_frequency(m.snd_pairs[j][1], SndFreq(j - 1, m.pitch, finetune)),
          set_frequency(m.snd_pairs[j][2], SndFreq(j - 1, m.pitch, finetune))>>]]

\* tick_melodies, the note-on of an event
NoteOn(m, ch, event) ==
    LET a == SwitchVoice(m, ch.pizzicato)
        b == [a EXCEPT !.pitch = event.pitch, !.ticks = event.length]
        c == SetFrequencies(b, ch.finetune)
    IN  WithPitchAltSound(c, play(pitch_alt_sound(c), ~ch.pizzicato))

VolumeDb(volume) == ((volume * 100) \div 127 - 255) * 8

PanDb(pan) == (PANNING_TABLE[pan + 1] - 256) * 10

MelodyVolume(m, event) ==
    LET a == [m EXCEPT !.volume = event.volume]
    IN  IF a.pitch # PROPERTY_UNUSED
        THEN WithPitchAltSound(a, set_volume(pitch_alt_sound(a), VolumeDb(a.volume), volume_ramp))
        ELSE a

MelodyPan(m, event) ==
    LET a == [m EXCEPT !.pan = event.pan]
    IN  IF a.pitch # PROPERTY_UNUSED
        THEN WithPitchAltSound(a, set_pan(pitch_alt_sound(a), PanDb(a.pan), volume_ramp))
        ELSE a

\* the channel's pending event is due at this position
MelodyDue(m, ch, position) ==
    /\ m.index < Len(ch.events)
    /\ ~m.muted
    /\ position = ch.events[m.index + 1].position

\* the consumption of the due event with the note length taken from every event: a
\* fault that C17_SentinelKeepsVoice detects
ConsumeMelodyEventOff(m, ch) ==
    LET event == ch.events[m.index + 1]
        a == IF event.pitch # PROPERTY_UNUSED THEN NoteOn(m, ch, event) ELSE m
        b == IF event.volume # PROPERTY_UNUSED THEN MelodyVolume(a, event) ELSE a
        c == IF event.pan # PROPERTY_UNUSED THEN MelodyPan(b, event) ELSE b
    IN  [c EXCEPT !.index = @ + 1, !.ticks = event.length]

\* tick_melodies, the consumption of the due event
ConsumeMelodyEvent(m, ch) ==
    LET event == ch.events[m.index + 1]
        a == IF event.pitch # PROPERTY_UNUSED THEN NoteOn(m, ch, event) ELSE m
        b == IF event.volume # PROPERTY_UNUSED THEN MelodyVolume(a, event) ELSE a
        c == IF event.pan # PROPERTY_UNUSED THEN MelodyPan(b, event) ELSE b
    IN  [c EXCEPT !.index = @ + 1]

\* Expire with the release one tick early: a fault that C4_NoteLength detects
ExpireEarly(m, pizzicato) ==
    IF m.ticks <= 1
    THEN IF m.pitch # PROPERTY_UNUSED /\ ~pizzicato
         THEN [WithPitchAltSound(m, Release(pitch_alt_sound(m))) EXCEPT
                    !.pitch = PROPERTY_UNUSED, !.ticks = 0]
         ELSE [m EXCEPT !.ticks = 0]
    ELSE [m EXCEPT !.ticks = @ - 1]

\* tick_melodies, the note-length countdown
Expire(m, pizzicato) ==
    IF m.ticks = 0
    THEN IF m.pitch # PROPERTY_UNUSED /\ ~pizzicato
         THEN [WithPitchAltSound(m, Release(pitch_alt_sound(m))) EXCEPT !.pitch = PROPERTY_UNUSED]
         ELSE m
    ELSE [m EXCEPT !.ticks = @ - 1]

\* tick_melodies, one channel
TickMelody(m, ch, position) ==
    Expire(IF MelodyDue(m, ch, position) THEN ConsumeMelodyEvent(m, ch) ELSE m, ch.pizzicato)

\* where tick_melodies panics on one channel: "" when it does not
TickMelodyPanic(m, ch, position) ==
    IF ~MelodyDue(m, ch, position) THEN ""
    ELSE LET event == ch.events[m.index + 1]
             noteon == event.pitch # PROPERTY_UNUSED
             pitch == IF noteon THEN event.pitch ELSE m.pitch
         IN  IF noteon /\ m.pitch # PROPERTY_UNUSED /\ ~ch.pizzicato /\ m.pitch \div 12 >= 8
             THEN "snd_pairs index out of range"
             ELSE IF noteon /\ \E j \in 0..7 : ~FitsU16(SndFreq(j, pitch, ch.finetune))
             THEN "u16::try_from(snd_freq)"
             ELSE IF pitch # PROPERTY_UNUSED /\ pitch \div 12 >= 8
                     /\ (noteon \/ event.volume # PROPERTY_UNUSED \/ event.pan # PROPERTY_UNUSED)
             THEN "snd_pairs index out of range"
             ELSE IF pitch # PROPERTY_UNUSED /\ event.pan # PROPERTY_UNUSED /\ event.pan > 12
             THEN "PANNING_TABLE index out of range"
             ELSE ""

\* the percussion frequency pitch * 800 + 100 (u16): [ovf, v |-> the wrapped result]
PercFreq(pitch) ==
    [ovf |-> pitch * 800 + 100 > 65535, v |-> (pitch * 800 + 100) % 65536]

PercussionDue(p, ch, position) ==
    /\ ~p.muted
    /\ p.index < Len(ch.events)
    /\ position = ch.events[p.index + 1].position

\* tick_percussions, one channel
TickPercussion(p, ch, position) ==
    IF ~PercussionDue(p, ch, position) THEN p
    ELSE LET event == ch.events[p.index + 1]
             a == IF event.pitch # PROPERTY_UNUSED
                  THEN [p EXCEPT !.pitch = event.pitch,
                                 !.sound = play(set_frequency(stop(@), PercFreq(event.pitch).v), FALSE)]
                  ELSE p
             b == IF event.volume # PROPERTY_UNUSED
                  THEN [a EXCEPT !.volume = event.volume,
                                 !.sound = set_volume(@, VolumeDb(event.volume), volume_ramp)]
                  ELSE a
             c == IF event.pan # PROPERTY_UNUSED
                  THEN [b EXCEPT !.pan = event.pan,
                                 !.sound = set_pan(@, PanDb(event.pan), volume_ramp)]
                  ELSE b
         IN  [c EXCEPT !.index = @ + 1]

TickPercussionPanic(p, ch, position, oc) ==
    IF ~PercussionDue(p, ch, position) THEN ""
    ELSE LET event == ch.events[p.index + 1]
         IN  IF oc /\ event.pitch # PROPERTY_UNUSED /\ PercFreq(event.pitch).ovf
             THEN "percussion frequency overflow"
             ELSE IF event.pan # PROPERTY_UNUSED /\ event.pan > 12
             THEN "PANNING_TABLE index out of range"
             ELSE ""

\* Wraps with > for >=: a fault that C1_LoopWrap detects
WrapsPastEnd(pos, s) == ~U32Le(U32Inc(pos), s.repeat_end)

\* tick: after position += 1 the song has reached its end, and seek(repeat_start) runs
Wraps(pos, s) == U32Ge(U32Inc(pos), s.repeat_end)

\* tick: the position after position += 1 and the loop wrap
NextPosition(pos, s) == IF Wraps(pos, s) THEN s.repeat_start ELSE U32Inc(pos)

(***************************************************************************)
(* Player::read_soundbank.  A bank input is [tag, head, tail]: head bytes  *)
(* of the melody block (at most 25600) whose content is BankByte(tag, _),  *)
(* followed by the bytes of tail.                                          *)
(***************************************************************************)
BankLen(bank) == bank.head + Len(bank.tail)

\* u32 -> usize
U32Value(a) == a[1] * 65536 + a[2]

\* the percussion loop from slot k on, the cursor at offset off of tail:
\* [res, site, perc |-> percussion_wave_data after the loop]
RECURSIVE ReadPercussionWaves(_, _, _, _)
ReadPercussionWaves(tail, off, k, waves) ==
    IF k > NUM_PERCUSSION_WAVES THEN [res |-> "ok", site |-> "", perc |-> waves]
    ELSE IF off + 4 > Len(tail) THEN [res |-> "malformed", site |-> "", perc |-> waves]
    ELSE LET len == U32LeAt(tail, off)
         IN  IF len = U32(0) THEN ReadPercussionWaves(tail, off + 4, k + 1, waves)
             ELSE IF len[1] >= 32768 \/ off + 4 + U32Value(len) > Len(tail)
             THEN [res |-> "panic", site |-> "next_n_bytes out of range", perc |-> waves]
             ELSE ReadPercussionWaves(tail, off + 4 + U32Value(len), k + 1,
                    [waves EXCEPT ![k] =
                        [n \in 1..U32Value(len) |-> ToI8(tail[off + 4 + n])]])

\* Player::read_soundbank: [res, site, melody, perc]
ReadSoundbank(wave_tag, waves, bank) ==
    IF BankLen(bank) < MELODY_WAVE_LEN + NUM_PERCUSSION_WAVES * 4
    THEN [res |-> "malformed", site |-> "", melody |-> wave_tag, perc |-> waves]
    ELSE LET r == ReadPercussionWaves(bank.tail, 0, 1, waves)
         IN  IF r.res = "panic"
             THEN [res |-> "panic", site |-> r.site, melody |-> wave_tag, perc |-> waves]
             ELSE [res |-> r.res, site |-> "", melody |-> bank.tag, perc |-> r.perc]

(***************************************************************************)
(* Inputs: song files and soundbank files, as the bytes of their layout.   *)
(***************************************************************************)
\* the sequences ss[i], ss[i + 1], ... one after the other
Concat(ss, i) ==
    LET from[k \in i..(Len(ss) + 1)] == IF k > Len(ss) THEN <<>> ELSE ss[k] \o from[k + 1]
    IN  from[i]

Zeros(n) == [k \in 1..n |-> 0]

\* a raw (not yet normalized) event of a song file
RawEvent(position, pitch, length, volume, pan) ==
    [position |-> U32(position), pitch |-> pitch, length |-> length, volume |-> volume,
     pan |-> pan]

\* a channel of a song file; pizz is the flag byte
RawChannel(finetune, instrument, pizz, events) ==
    [finetune |-> finetune, instrument |-> instrument, pizz |-> pizz, events |-> events]

EmptyChannel == RawChannel(1000, 0, 0, <<>>)

ChannelHeaderBytes(c) ==
    U16Bytes(c.finetune) \o <<c.instrument, c.pizz>> \o U16Bytes(Len(c.events))

ChannelTableBytes(c) ==
    Concat([j \in 1..Len(c.events) |-> U32Bytes(c.events[j].position)], 1)
    \o [j \in 1..Len(c.events) |-> c.events[j].pitch]
    \o [j \in 1..Len(c.events) |-> c.events[j].length]
    \o [j \in 1..Len(c.events) |-> c.events[j].volume]
    \o [j \in 1..Len(c.events) |-> c.events[j].pan]

\* the file of a song description f, its last f.drop bytes missing
EncodeSong(f) ==
    LET all == f.magic \o f.version \o U16Bytes(f.tempo_ms) \o <<4, 4>>
               \o U32Bytes(f.repeat_start) \o U32Bytes(f.repeat_end)
               \o Concat([i \in 1..16 |-> ChannelHeaderBytes(f.channels[i])], 1)
               \o Concat([i \in 1..16 |-> ChannelTableBytes(f.channels[i])], 1)
    IN  SubSeq(all, 1, Len(all) - f.drop)

\* version 2 song whose melody channel 0 is mel and percussion channel 8 is perc
SongFile(tempo_ms, repeat_start, repeat_end, mel, perc) ==
    [magic |-> Magic, version |-> <<48, 50>>, tempo_ms |-> tempo_ms,
     repeat_start |-> U32(repeat_start), repeat_end |-> U32(repeat_end),
     channels |-> [i \in 1..16 |-> IF i = 1 THEN mel ELSE IF i = 9 THEN perc
                                   ELSE EmptyChannel],
     drop |-> 0]

\* the percussion records of a soundbank: 42 length-prefixed samples
PercussionRecords(waves) ==
    Concat([k \in 1..NUM_PERCUSSION_WAVES |-> U32Bytes(U32(Len(waves[k]))) \o waves[k]], 1)

NoWaves == [k \in 1..NUM_PERCUSSION_WAVES |-> <<>>]

\* a soundbank file: the melody block of tag and the percussion records of waves
BankFile(tag, waves) ==
    [tag |-> tag, head |-> MELODY_WAVE_LEN, tail |-> PercussionRecords(waves)]

(***************************************************************************)
(* The player.                                                             *)
(***************************************************************************)
VARIABLES
    song,                  \* Player::song
    position,              \* Player::position (u32)
    last_position,         \* Player::last_position (u32)
    samples_to_next_tick,  \* Player::samples_to_next_tick, in 1 / (10 * TickUnit) sample
    melodies,              \* Player::melodies
    percussions,           \* Player::percussions
    melody_wave_data,      \* Player::melody_wave_data, the tag of the block it holds
    percussion_wave_data,  \* Player::percussion_wave_data
    overflow_checks,       \* the build panics on integer overflow
    stage,                 \* the caller: orgplay's main ("soundbank", "song", "play",
                           \* "exit") or a client of the library ("api", "tempo")
    pc,                    \* inside Player::write_sample: "idle" between frames, "mix"
                           \* after the tick check of a frame
    call,                  \* the last call of the public interface and how it ended
    frames,                \* frames rendered so far
    notes,                 \* per melody channel: ticks run since its last note-on, and
                           \* the length of that note (age -1: none since the load)
    out                    \* the stereo frame write_sample is writing or wrote last

vars == <<song, position, last_position, samples_to_next_tick, melodies, percussions,
          melody_wave_data, percussion_wave_data, overflow_checks, stage, pc, call,
          frames, notes, out>>

\* the fields of the player
player == <<song, position, last_position, samples_to_next_tick, melodies, percussions,
            melody_wave_data, percussion_wave_data>>

MaxFrames == 5

MaxPos == 2

MaxTempoFrames == 445

\* the frames a run renders
FrameLimit == IF stage = "tempo" THEN MaxTempoFrames ELSE MaxFrames

\* the units of a tenth of a sample; a run has fewer ticks than this
TickUnit == 1000

\* the sign of the rounding error of the f64 quotient 44100.0 * tempo_ms / 1000.0: with
\* 2^e <= 441 * tempo_ms / 10 < 2^(e + 1) the quotient is rounded to a multiple of
\* 2^(e - 52), and r / 10 is the fraction of such a multiple that is cut off
RoundingError(tempo_ms) ==
    LET n == 441 * tempo_ms
    IN  IF n % 10 = 0 THEN 0
        ELSE LET e == CHOOSE k \in 0..22 : 2 ^ k <= n \div 10 /\ n \div 10 < 2 ^ (k + 1)
                 pow == <<2, 4, 8, 6>>[((52 - e - 1) % 4) + 1]     \* 2^(52 - e) mod 10
                 r == ((n % 10) * pow) % 10
             IN  IF r = 0 THEN 0 ELSE IF r > 5 THEN 1 ELSE -1

\* f64::from(sample_rate) * f64::from(tempo_ms) / 1000.0
SamplesPerTick(tempo_ms) == 441 * tempo_ms * TickUnit + RoundingError(tempo_ms)

NoNote == [age |-> -1, len |-> 0]

\* Player::default()
InitPlayer ==
    /\ song = SongDefault
    /\ position = U32(0)
    /\ last_position = U32(0)
    /\ samples_to_next_tick = 0
    /\ melodies = [i \in 1..8 |-> MelodyDefault]
    /\ percussions = [i \in 1..8 |-> PercussionDefault]
    /\ melody_wave_data = 0
    /\ percussion_wave_data = NoWaves
    /\ overflow_checks \in BOOLEAN
    /\ pc = "idle"
    /\ call = [op |-> "default", arg |-> <<>>, res |-> "ok", site |-> ""]
    /\ frames = 0
    /\ notes = [i \in 1..8 |-> NoNote]
    /\ out = OutZero

Alive == call.res # "panic"

NextStage(res) ==
    IF stage \in {"api", "tempo"} THEN stage
    ELSE IF res # "ok" THEN "exit"
    ELSE IF stage = "soundbank" THEN "song" ELSE "play"

\* Player::read_soundbank(bank)
ReadSoundbankCall(bank) ==
    /\ Alive /\ pc = "idle" /\ stage \in {"soundbank", "api"}
    /\ LET r == ReadSoundbank(melody_wave_data, percussion_wave_data, bank)
       IN  /\ melody_wave_data' = r.melody
           /\ percussion_wave_data' = r.perc
           /\ call' = [op |-> "read_soundbank", arg |-> bank, res |-> r.res, site |-> r.site]
           /\ stage' = NextStage(r.res)
    /\ UNCHANGED <<song, position, last_position, samples_to_next_tick, melodies,
                   percussions, overflow_checks, pc, frames, notes, out>>

\* Player::read_song(song_data): Song::read, then seek(0) and load_instruments()
ReadSongCall(d) ==
    /\ Alive /\ pc = "idle" /\ stage \in {"song", "api", "tempo"}
    /\ LET r == SongRead(song, d, overflow_checks)
       IN  /\ call' = [op |-> "read_song", arg |-> d, res |-> r.res, site |-> r.site]
           /\ stage' = NextStage(r.res)
           /\ IF r.res = "ok"
              THEN /\ song' = r.song
                   /\ position' = U32(0)
                   /\ last_position' = U32(0)
                   /\ melodies' = [i \in 1..8 |->
                        LoadMelody([melodies[i] EXCEPT
                                        !.index = SeekIndex(r.song.channels[i].events, U32(0))],
                                   r.song.channels[i], melody_wave_data)]
                   /\ percussions' = [i \in 1..8 |->
                        LoadPercussion([percussions[i] EXCEPT
                                        !.index = SeekIndex(r.song.channels[8 + i].events, U32(0))],
                                       r.song.channels[8 + i], percussion_wave_data)]
                   /\ notes' = [i \in 1..8 |-> NoNote]
              ELSE UNCHANGED <<song, position, last_position, melodies, percussions, notes>>
    /\ UNCHANGED <<samples_to_next_tick, melody_wave_data, percussion_wave_data,
                   overflow_checks, pc, frames, out>>

\* the first panic of tick(), "" when there is none
TickPanic ==
    LET mel == {i \in 1..8 : TickMelodyPanic(melodies[i], song.channels[i], position) # ""}
        per == {i \in 1..8 : TickPercussionPanic(percussions[i], song.channels[8 + i],
                                                 position, overflow_checks) # ""}
    IN  IF mel # {}
        THEN TickMelodyPanic(melodies[CHOOSE i \in mel : \A k \in mel : i <= k],
                             song.channels[CHOOSE i \in mel : \A k \in mel : i <= k], position)
        ELSE IF per # {}
        THEN TickPercussionPanic(percussions[CHOOSE i \in per : \A k \in per : i <= k],
                                 song.channels[8 + (CHOOSE i \in per : \A k \in per : i <= k)],
                                 position, overflow_checks)
        ELSE IF overflow_checks /\ position = U32Max THEN "position overflow"
        ELSE ""

\* the note bookkeeping of one melody channel over a tick
NoteAfterTick(n, m, ch) ==
    IF MelodyDue(m, ch, position) /\ ch.events[m.index + 1].pitch # PROPERTY_UNUSED
    THEN [age |-> 0, len |-> ch.events[m.index + 1].length]
    ELSE IF n.age >= 0 THEN [n EXCEPT !.age = @ + 1] ELSE n

\* Player::write_sample, a frame whose tick is due: Player::tick
Tick ==
    /\ Alive /\ pc = "idle" /\ stage \in {"play", "api", "tempo"}
    /\ frames < FrameLimit
    /\ samples_to_next_tick <= 0
    /\ IF TickPanic # ""
       THEN /\ call' = [op |-> "write_next", arg |-> <<>>, res |-> "panic", site |-> TickPanic]
            /\ UNCHANGED <<position, last_position, samples_to_next_tick, melodies,
                           percussions, pc, notes>>
       ELSE /\ call' = [op |-> "write_next", arg |-> <<>>, res |-> "ok", site |-> ""]
            /\ last_position' = position
            /\ position' = NextPosition(position, song)
            /\ melodies' = [i \in 1..8 |->
                 LET m == TickMelody(melodies[i], song.channels[i], position)
                 IN  IF Wraps(position, song)
                     THEN [m EXCEPT !.index = SeekIndex(song.channels[i].events,
                                                        song.repeat_start)]
                     ELSE m]
            /\ percussions' = [i \in 1..8 |->
                 LET q == TickPercussion(percussions[i], song.channels[8 + i], position)
                 IN  IF Wraps(position, song)
                     THEN [q EXCEPT !.index = SeekIndex(song.channels[8 + i].events,
                                                        song.repeat_start)]
                     ELSE q]
            /\ samples_to_next_tick' = samples_to_next_tick + SamplesPerTick(song.tempo_ms)
            /\ notes' = [i \in 1..8 |-> NoteAfterTick(notes[i], melodies[i], song.channels[i])]
            /\ pc' = "mix"
    /\ out' = OutZero
    /\ UNCHANGED <<song, melody_wave_data, percussion_wave_data, overflow_checks, stage,
                   frames>>

\* the first panic of the voices' write_sample calls of a frame, "" when there is none
MixPanic ==
    IF \E i \in 1..8, j \in 1..8, a \in 1..2 :
            WriteSamplePanic(melodies[i].snd_pairs[j][a], overflow_checks) # ""
    THEN LET v == CHOOSE v \in (1..8) \X (1..8) \X (1..2) :
                    WriteSamplePanic(melodies[v[1]].snd_pairs[v[2]][v[3]], overflow_checks) # ""
         IN  WriteSamplePanic(melodies[v[1]].snd_pairs[v[2]][v[3]], overflow_checks)
    ELSE IF \E i \in 1..8 : WriteSamplePanic(percussions[i].sound, overflow_checks) # ""
    THEN LET k == CHOOSE i \in 1..8 : WriteSamplePanic(percussions[i].sound, overflow_checks) # ""
         IN  WriteSamplePanic(percussions[k].sound, overflow_checks)
    ELSE ""

\* the voices in the order Player::write_sample mixes them
VoicesInOrder ==
    [k \in 1..136 |->
        IF k <= 128
        THEN melodies[((k - 1) \div 16) + 1].snd_pairs[(((k - 1) % 16) \div 2) + 1][((k - 1) % 2) + 1]
        ELSE percussions[k - 128].sound]

\* the frame the voices add up to: one term for every voice that is not idle, in mixing
\* order; the master volume is 1.0
MixAll(acc, interpolation) ==
    LET active == SelectSeq(VoicesInOrder, LAMBDA s : ~Idle(s))
    IN  [l |-> acc.l \o [k \in 1..Len(active) |->
                            MixInto(OutZero, active[k], interpolation).l[1]],
         r |-> acc.r \o [k \in 1..Len(active) |->
                            MixInto(OutZero, active[k], interpolation).r[1]]]

\* Player::write_sample after the tick check: the countdown and the voices
MixVoicesWith(interpolation) ==
    /\ Alive /\ stage \in {"play", "api", "tempo"}
    /\ frames < FrameLimit
    /\ pc = "mix" \/ (pc = "idle" /\ samples_to_next_tick > 0)
    /\ IF MixPanic # ""
       THEN /\ call' = [op |-> "write_next", arg |-> <<interpolation>>, res |-> "panic",
                            site |-> MixPanic]
            /\ out' = OutZero
            /\ UNCHANGED <<samples_to_next_tick, melodies, percussions, pc, frames>>
       ELSE /\ call' = [op |-> "write_next", arg |-> <<interpolation>>, res |-> "ok",
                            site |-> ""]
            /\ out' = MixAll(OutZero, interpolation)
            /\ samples_to_next_tick' = samples_to_next_tick - 10 * TickUnit
            /\ melodies' = [i \in 1..8 |-> [melodies[i] EXCEPT !.snd_pairs =
                    [j \in 1..8 |-> <<write_sample(melodies[i].snd_pairs[j][1]),
                                      write_sample(melodies[i].snd_pairs[j][2])>>]]]
            /\ percussions' = [i \in 1..8 |->
                    [percussions[i] EXCEPT !.sound = write_sample(@)]]
            /\ pc' = "idle"
            /\ frames' = frames + 1
    /\ UNCHANGED <<song, position, last_position, melody_wave_data, percussion_wave_data,
                   overflow_checks, stage, notes>>

(***************************************************************************)
(* The inputs of the runs.                                                 *)
(***************************************************************************)
\* the raw events a melody channel draws from (position filled in by EventsAt)
MelodyAlphabet ==
    { RawEvent(0, 0, 1, 255, 255),      \* note C of group 0, one tick
      RawEvent(0, 95, 3, 127, 0),       \* note B of group 7, three ticks, volume and pan
      RawEvent(0, 96, 0, 64, 13) }      \* no note; pitch, length and pan to normalize

PercussionAlphabet ==
    { RawEvent(0, 55, 1, 255, 255),     \* 44100 Hz
      RawEvent(0, 95, 0, 127, 12),      \* 76100 Hz, beyond u16
      RawEvent(0, 255, 1, 0, 6) }       \* volume and pan only

\* the k-th smallest element of a set of numbers
Sorted(S) ==
    [k \in 1..Cardinality(S) |-> CHOOSE x \in S : Cardinality({y \in S : y < x}) = k - 1]

\* the event lists with one event of `alphabet` at each position of a set of positions
EventLists(alphabet) ==
    UNION { { [k \in 1..Len(Sorted(S)) |-> [f[Sorted(S)[k]] EXCEPT !.position = U32(Sorted(S)[k])]]
              : f \in [S -> alphabet] }
            : S \in SUBSET (0..MaxPos) }

\* the loops of the songs: the whole song, a loop inside it, a loop past every event
Loops == { <<0, MaxPos + 1>>, <<1, MaxPos>>, <<MaxPos, MaxPos + 1>> }

MelodySongs ==
    { SongFile(0, l[1], l[2], RawChannel(1000, 0, pizz, ev), EmptyChannel)
      : l \in Loops, pizz \in {0, 1}, ev \in EventLists(MelodyAlphabet) }

PercussionSongs ==
    { SongFile(0, 0, MaxPos + 1, EmptyChannel, RawChannel(1000, 0, 0, ev))
      : ev \in EventLists(PercussionAlphabet) }
    \cup
    { SongFile(0, 0, MaxPos + 1, EmptyChannel,
               RawChannel(1000, ins, 0, <<RawEvent(0, 55, 1, 255, 255), RawEvent(1, 255, 1, 0, 6)>>))
      : ins \in {1, 42} }

\* one note on a detuned channel, at a tempo of 44.1 frames a tick
FinetuneSongs ==
    { SongFile(1, 0, 1, RawChannel(ft, 100, 1, <<RawEvent(0, p, 1, 255, 255)>>), EmptyChannel)
      : ft \in {0, 3303, 3304, 65535}, p \in {0, 95} }

GoodSong == SongFile(0, 0, MaxPos + 1, RawChannel(1000, 0, 0, <<RawEvent(0, 0, 1, 255, 255)>>),
                     EmptyChannel)

\* files Song::read must refuse
BadSongs ==
    { [GoodSong EXCEPT !.drop = 1],                   \* the event table is cut short
      [GoodSong EXCEPT !.drop = 8],                   \* the header alone
      [GoodSong EXCEPT !.drop = 9],                   \* 113 bytes
      [GoodSong EXCEPT !.magic = <<70, 111, 111, 45>>],
      [GoodSong EXCEPT !.version = <<48, 48>>],       \* "00"
      [GoodSong EXCEPT !.version = <<48, 52>>],       \* "04"
      [GoodSong EXCEPT !.version = <<49, 39>>],       \* "1'": 10 + 247 wraps to 1
      [GoodSong EXCEPT !.version = <<47, 50>>] }      \* "/2": '/' - '0' overflows

\* songs that end at tick 0: every tick wraps to repeat_start
DegenerateSongs ==
    { [SongFile(0, 0, 0, RawChannel(1000, 0, 0, <<[RawEvent(0, 0, 1, 255, 255) EXCEPT
                                                      !.position = rs]>>),
                EmptyChannel) EXCEPT !.repeat_start = rs]
      : rs \in {U32(0), U32(1), U32Max} }

PlaySongs ==
    MelodySongs \cup PercussionSongs \cup FinetuneSongs \cup DegenerateSongs \cup BadSongs

\* a bank whose percussion sample 0 has three samples
GoodBank == BankFile(1, [NoWaves EXCEPT ![1] = <<138, 0, 255>>])

\* 25599 bytes
ShortBank == [GoodBank EXCEPT !.head = MELODY_WAVE_LEN - 1, !.tail = <<>>]

\* the last three bytes missing: 168 bytes of records, of which sample 0 takes 7
CutBank == [GoodBank EXCEPT !.tail = SubSeq(@, 1, Len(@) - 3)]

\* sample 0 declares more bytes than the file has
OverlongBank == [GoodBank EXCEPT !.tail = <<200, 0, 0, 0>> \o Zeros(164)]

PlayBanks == { GoodBank, ShortBank, CutBank, OverlongBank }

(***************************************************************************)
(* Spec: a run of examples/orgplay.rs: load a soundbank, load a song, then *)
(* render frames for ever.                                                 *)
(***************************************************************************)
Init == InitPlayer /\ stage = "soundbank"

\* orgplay renders with Interpolation::Lagrange
MixVoices == MixVoicesWith("Lagrange")

LoadSoundbank == \E bank \in PlayBanks : ReadSoundbankCall(bank)

\* the bytes of the song files
PlaySongData == { EncodeSong(f) : f \in PlaySongs }

LoadSong == stage = "song" /\ \E d \in PlaySongData : ReadSongCall(d)

Next == LoadSoundbank \/ LoadSong \/ Tick \/ MixVoices

Spec == Init /\ [][Next]_vars

(***************************************************************************)
(* SpecApi: a caller of the library that loads soundbanks and songs and    *)
(* renders frames in any order.                                            *)
(***************************************************************************)
\* a second bank: another melody block, another percussion sample 0
OtherBank == BankFile(2, [NoWaves EXCEPT ![1] = <<10, 20>>])

ApiBanks == { GoodBank, OtherBank }

\* a percussion hit at tick 0 with a held note from tick 1; a song of one short note at
\* tick 0
ApiSongs ==
    { SongFile(0, 0, MaxPos + 1, RawChannel(1000, 1, 0, <<RawEvent(1, 0, 3, 255, 255)>>),
               RawChannel(1000, 0, 0, <<RawEvent(0, 55, 1, 255, 255)>>)),
      GoodSong }

MaxApiFrames == 3

InitApi == InitPlayer /\ stage = "api"

ApiLoadSoundbank == stage = "api" /\ \E bank \in ApiBanks : ReadSoundbankCall(bank)

\* the bytes of the song files
ApiSongData == { EncodeSong(f) : f \in ApiSongs }

ApiLoadSong == stage = "api" /\ \E d \in ApiSongData : ReadSongCall(d)

\* the caller renders at most MaxApiFrames frames
ApiTick == frames < MaxApiFrames /\ Tick

ApiMixVoices ==
    frames < MaxApiFrames /\ \E interpolation \in Interpolations : MixVoicesWith(interpolation)

NextApi == ApiLoadSoundbank \/ ApiLoadSong \/ ApiTick \/ ApiMixVoices

SpecApi == InitApi /\ [][NextApi]_vars

(***************************************************************************)
(* SpecTempo: a caller that loads one song without events into a new      *)
(* player and renders frame after frame, for the times of the ticks.      *)
(***************************************************************************)
\* tick lengths of 44.1 samples (rounded up in f64), 220.5 and 441 samples (both exact)
\* and 308.7 samples (rounded down)
TempoSongData ==
    { EncodeSong(SongFile(t, 0, MaxTempoFrames, EmptyChannel, EmptyChannel))
      : t \in { 1, 5, 7, 10 } }

InitTempo == InitPlayer /\ stage = "tempo"

TempoLoadSong ==
    /\ stage = "tempo" /\ call.op = "default"
    /\ \E d \in TempoSongData : ReadSongCall(d)

TempoTick == stage = "tempo" /\ Tick

TempoMixVoices == stage = "tempo" /\ MixVoices

NextTempo == TempoLoadSong \/ TempoTick \/ TempoMixVoices

SpecTempo == InitTempo /\ [][NextTempo]_vars

(***************************************************************************)
(* SpecVoice: one voice (sound.rs) driven through its own operations, the  *)
(* way the player drives its voices.  The voice is percussions[1].sound.   *)
(* notes[1].age counts the write_sample calls since a play(false) found    *)
(* the voice not playing with sub_position 0 (-1: no such start, or the    *)
(* voice was started or stopped since); notes[1].len counts the calls of   *)
(* the other operations.  A run starts at the voice's initialization, or    *)
(* after the voice has looped for 2^32 - 2 calls.                          *)
(***************************************************************************)
MaxVoiceCalls == 10

\* one call of another operation for every five write_sample calls
MaxVoiceOps == MaxVoiceCalls \div 5

\* wavetables of one and of three samples
VoiceWaves == { <<64>>, <<10, -20, 30>> }

\* increments of 1, 5/4 and 65535/44100 samples a frame
VoiceFrequencies == { 44100, 55125, 65535 }

\* the ramp lengths set_volume and set_pan are given: a short one, and the player's
VoiceRamps == { 2, volume_ramp }

\* accumulators write_sample adds to: 0.0, and the sum another voice left
VoiceAccs ==
    { OutZero,
      [l |-> <<[sample |-> <<64>>, gain |-> Gain(Level(0))]>>,
       r |-> <<[sample |-> <<64>>, gain |-> Gain(Level(-1280))]>>] }

voice == percussions[1].sound

InitVoice ==
    /\ song = SongDefault
    /\ position = U32(0)
    /\ last_position = U32(0)
    /\ samples_to_next_tick = 0
    /\ melodies = [i \in 1..8 |-> MelodyDefault]
    /\ melody_wave_data = 0
    /\ percussion_wave_data = NoWaves
    /\ overflow_checks \in BOOLEAN
    /\ pc = "idle"
    /\ call = [op |-> "init", arg |-> <<>>, res |-> "ok", site |-> ""]
    /\ frames = 0
    /\ notes = [i \in 1..8 |-> NoNote]
    /\ out = OutZero
    /\ stage = "voice"
    /\ \E w \in VoiceWaves, f \in VoiceFrequencies, long \in BOOLEAN :
          LET new == [set_frequency(init(SoundDefault, Len(w), volume_ramp), f)
                          EXCEPT !.data = PcmData(w)]
              \* the voice after play(true) and 2^32 - 2 write_sample calls
              looped == [new EXCEPT !.playing = TRUE, !.looping = TRUE,
                                    !.ring = 6, !.samples = [k \in 1..8 |-> w[1]],
                                    !.total_samples = <<65535, 65534>>]
          IN  /\ long => (Len(w) = 1 /\ f = SAMPLE_RATE)
              /\ percussions = [i \in 1..8 |->
                    IF i = 1
                    THEN [PercussionDefault EXCEPT !.sound = IF long THEN looped ELSE new]
                    ELSE PercussionDefault]

\* one operation of the voice other than write_sample
VoiceOp(op, arg, after, age) ==
    /\ Alive /\ stage = "voice"
    /\ notes[1].len < MaxVoiceOps
    /\ percussions' = [percussions EXCEPT ![1].sound = after]
    /\ call' = [op |-> op, arg |-> arg, res |-> "ok", site |-> ""]
    /\ notes' = [notes EXCEPT ![1].age = age,
                              ![1].len = @ + 1]
    /\ UNCHANGED <<song, position, last_position, samples_to_next_tick, melodies,
                   melody_wave_data, percussion_wave_data, overflow_checks, stage, pc,
                   frames, out>>

\* Sound::play; the player loops only melody voices, whose wavetables are not empty
VoicePlay ==
    \E looping \in BOOLEAN :
        /\ looping => voice.data.len > 0
        /\ VoiceOp("play", <<looping>>, play(voice, looping),
                   IF ~looping /\ ~voice.playing /\ voice.sub_position = 0 THEN 0 ELSE -1)

VoiceStop == VoiceOp("stop", <<>>, stop(voice), -1)

VoiceSetVolume ==
    \E db \in { -800 }, ramp \in VoiceRamps :
        /\ VoiceOp("set_volume", <<db, ramp>>, set_volume(voice, db, ramp), notes[1].age)

VoiceSetPan ==
    \E db \in { 2560 }, ramp \in VoiceRamps :
        /\ VoiceOp("set_pan", <<db, ramp>>, set_pan(voice, db, ramp), notes[1].age)

\* Sound::write_sample(acc, interpolation)
VoiceWriteSample ==
    \E acc \in VoiceAccs, interpolation \in Interpolations :
        /\ (acc = OutZero) <=> (interpolation = "None")
        /\ Alive /\ stage = "voice"
        /\ frames < MaxVoiceCalls
        /\ IF WriteSamplePanic(voice, overflow_checks) # ""
           THEN /\ call' = [op |-> "write_sample", arg |-> <<acc, interpolation>>,
                            res |-> "panic", site |-> WriteSamplePanic(voice, overflow_checks)]
                /\ UNCHANGED <<percussions, frames, notes, out>>
           ELSE /\ call' = [op |-> "write_sample", arg |-> <<acc, interpolation>>,
                            res |-> "ok", site |-> ""]
                /\ percussions' = [percussions EXCEPT ![1].sound = write_sample(voice)]
                /\ out' = MixInto(acc, voice, interpolation)
                /\ frames' = frames + 1
                /\ notes' = [notes EXCEPT ![1].age = IF @ >= 0 THEN @ + 1 ELSE @]
        /\ UNCHANGED <<song, position, last_position, samples_to_next_tick, melodies,
                       melody_wave_data, percussion_wave_data, overflow_checks, stage, pc>>

NextVoice == VoicePlay \/ VoiceStop \/ VoiceSetVolume \/ VoiceSetPan \/ VoiceWriteSample

SpecVoice == InitVoice /\ [][NextVoice]_vars

(***************************************************************************)
(* The claims.                                                             *)
(***************************************************************************)
U32Lt(a, b) == ~U32Le(b, a)

\* this step is a tick() that ran to its end
Ticked == pc = "idle" /\ pc' = "mix"

\* this step is a read_song that succeeded
SongLoaded == call'.op = "read_song" /\ call'.res = "ok"

\* channel i consumes a note-on in the tick that is due
DueNoteOn(i) ==
    /\ MelodyDue(melodies[i], song.channels[i], position)
    /\ song.channels[i].events[melodies[i].index + 1].pitch # PROPERTY_UNUSED

DueEvent(i) == song.channels[i].events[melodies[i].index + 1]

\* C1: with repeat_start < repeat_end, the position after every tick is below
\* repeat_end, and the tick at position repeat_end - 1 leaves position = repeat_start.
C1_LoopWrap ==
    [][(Ticked /\ U32Lt(song.repeat_start, song.repeat_end)) =>
            /\ U32Lt(position', song.repeat_end)
            /\ (U32Inc(position) = song.repeat_end => position' = song.repeat_start)]_vars

\* a tick at repeat_end - 1 has wrapped to a repeat_start that is not 0
C1_Witness ==
    /\ pc = "mix"
    /\ U32Lt(song.repeat_start, song.repeat_end)
    /\ U32Inc(last_position) = song.repeat_end
    /\ position = song.repeat_start
    /\ song.repeat_start # U32(0)

\* C2 as claimed: on a pizzicato channel a note-on over a held pitch leaves alt as it
\* is and resets the position of the voice it starts.
C2_AltKept ==
    [][\A i \in 1..8 :
        (Ticked /\ song.channels[i].pizzicato /\ DueNoteOn(i)
            /\ melodies[i].pitch # PROPERTY_UNUSED) =>
            /\ melodies'[i].alt = melodies[i].alt
            /\ pitch_alt_sound(melodies'[i]).position = 0]_vars

\* C2 as amended: on a pizzicato channel a note-on over a held pitch flips alt and
\* starts the other voice of the new pitch's pair as a one-shot; that voice's position
\* and phase are reset only if it was not playing any more.
C2_PizzicatoRetrigger ==
    [][\A i \in 1..8 :
        (Ticked /\ song.channels[i].pizzicato /\ DueNoteOn(i)
            /\ melodies[i].pitch # PROPERTY_UNUSED) =>
            LET g == DueEvent(i).pitch \div 12
                a == 1 - melodies[i].alt
                before == melodies[i].snd_pairs[g + 1][a + 1]
                after == melodies'[i].snd_pairs[g + 1][a + 1]
            IN  /\ melodies'[i].alt = a
                /\ melodies'[i].pitch = DueEvent(i).pitch
                /\ after.playing /\ ~after.looping
                /\ after.position = IF before.playing THEN before.position ELSE 0
                /\ after.sub_position =
                     IF before.playing \/ before.silence_timer > 0
                     THEN before.sub_position ELSE 0]_vars

\* a third pizzicato note-on has come back to a voice that was still playing
C2_Witness ==
    \E i \in 1..8 :
        /\ pc = "mix" /\ song.channels[i].pizzicato
        /\ notes[i].age = 0
        /\ melodies[i].alt = 0
        /\ pitch_alt_sound(melodies[i]).playing
        /\ pitch_alt_sound(melodies[i]).position > 0

\* channel i lets go of its active voice in the tick that is due
Releases(i) ==
    /\ ~song.channels[i].pizzicato
    /\ melodies[i].pitch # PROPERTY_UNUSED
    /\ DueNoteOn(i) \/ melodies[i].ticks = 0

C4_NoteLength ==
    \A i \in 1..8 :
        (~song.channels[i].pizzicato /\ notes[i].age >= 0) =>
            ((melodies[i].pitch = PROPERTY_UNUSED) <=> (notes[i].age >= notes[i].len))

\* a note of three ticks has just been released, three ticks after its note-on
C4_Witness ==
    \E i \in 1..8 :
        /\ pc = "mix" /\ ~song.channels[i].pizzicato
        /\ notes[i].len = 3 /\ notes[i].age = 3
        /\ melodies[i].pitch = PROPERTY_UNUSED

\* the indices of the events at or after pos
AtOrAfter(events, pos) == {j \in 0..(Len(events) - 1) : U32Le(pos, events[j + 1].position)}

Least(S) == CHOOSE j \in S : \A k \in S : j <= k

FirstOrZero(events, pos) ==
    IF AtOrAfter(events, pos) = {} THEN 0 ELSE Least(AtOrAfter(events, pos))

FirstOrLast(events, pos) ==
    IF AtOrAfter(events, pos) = {} THEN Max(Len(events) - 1, 0)
    ELSE Least(AtOrAfter(events, pos))

\* C5 as claimed: seek(pos), run by read_song with pos = 0 and by a wrapping tick with
\* pos = repeat_start, leaves every channel at its first event at or after pos, or at
\* its last event when there is none.
C5_SeekOrLast ==
    [][/\ SongLoaded =>
            /\ position' = U32(0) /\ last_position' = U32(0)
            /\ \A i \in 1..8 :
                /\ melodies'[i].index = FirstOrLast(song'.channels[i].events, U32(0))
                /\ percussions'[i].index = FirstOrLast(song'.channels[8 + i].events, U32(0))
       /\ (Ticked /\ U32Ge(U32Inc(position), song.repeat_end)) =>
            /\ position' = song.repeat_start
            /\ \A i \in 1..8 :
                /\ melodies'[i].index = FirstOrLast(song.channels[i].events, song.repeat_start)
                /\ percussions'[i].index =
                        FirstOrLast(song.channels[8 + i].events, song.repeat_start)]_vars

\* C5 as amended: ... or at index 0 when there is none.
C5_SeekOrZero ==
    [][/\ SongLoaded =>
            /\ position' = U32(0) /\ last_position' = U32(0)
            /\ \A i \in 1..8 :
                /\ melodies'[i].index = FirstOrZero(song'.channels[i].events, U32(0))
                /\ percussions'[i].index = FirstOrZero(song'.channels[8 + i].events, U32(0))
       /\ (Ticked /\ U32Ge(U32Inc(position), song.repeat_end)) =>
            /\ position' = song.repeat_start
            /\ \A i \in 1..8 :
                /\ melodies'[i].index = FirstOrZero(song.channels[i].events, song.repeat_start)
                /\ percussions'[i].index =
                        FirstOrZero(song.channels[8 + i].events, song.repeat_start)]_vars

\* a wrap has sought past every one of a channel's two or more events
C5_Witness ==
    /\ pc = "mix"
    /\ U32Inc(last_position) = song.repeat_end
    /\ position = song.repeat_start
    /\ Len(song.channels[1].events) >= 2
    /\ AtOrAfter(song.channels[1].events, song.repeat_start) = {}
    /\ melodies[1].index = 0

\* C6: no call of write_next aborts.
C6_RenderNeverAborts == ~(call.op = "write_next" /\ call.res = "panic")

\* the bytes a song file needs for the event tables its header declares
DeclaredLen(d) == TableAt(d, 16)

ShortInput(d) == Len(d) < SONG_HEADER_LEN \/ Len(d) < DeclaredLen(d)

\* the version bytes are not "01", "02" or "03"
BadVersion(d) == Len(d) >= 6 /\ <<d[5], d[6]>> \notin {<<48, 49>>, <<48, 50>>, <<48, 51>>}

\* C7: read_song returns Malformed for every input that is shorter than its header
\* and the tables the header declares, and for every input whose version bytes do not
\* encode 1, 2 or 3.
C7_MalformedRefused ==
    (call.op = "read_song" /\ (ShortInput(call.arg) \/ BadVersion(call.arg)))
        => call.res = "malformed"

\* C8: a load that returns an error leaves the player as it was.
C8_ErrorLeavesState == [][call'.res = "malformed" => UNCHANGED player]_vars

\* a voice as Sound::init leaves it
Fresh(s) == ~s.playing /\ s.silence_timer = 0 /\ s.total_samples = U32(0)

\* the samples the loaded soundbank has for group j of melody channel i
BankMelodyData(i, j) ==
    WaveData(SampleCount(j, song.channels[i].pizzicato), melody_wave_data,
             song.channels[i].instrument * 256, 256 \div SIZE_TABLE[j + 1])

\* the samples the loaded soundbank has for percussion channel i
BankPercussionData(i) ==
    LET src == percussion_wave_data[song.channels[8 + i].instrument + 1]
    IN  PcmData([k \in 1..Len(src) |-> WrapI8(src[k] - 128)])

\* C9: after every successful read_song and read_soundbank every voice is not playing,
\* has silence_timer = 0 and total_samples = 0, and its wavetable holds the samples of
\* the loaded soundbank for its channel's instrument.
C9_ReloadReinitializes ==
    (call.op \in {"read_song", "read_soundbank"} /\ call.res = "ok") =>
        \A i \in 1..8 :
            /\ \A j \in 1..8, a \in 1..2 :
                /\ Fresh(melodies[i].snd_pairs[j][a])
                /\ melodies[i].snd_pairs[j][a].data = BankMelodyData(i, j - 1)
            /\ Fresh(percussions[i].sound)
            /\ percussions[i].sound.data = BankPercussionData(i)

EventNormal(e) ==
    /\ e.pitch < 96 \/ e.pitch = PROPERTY_UNUSED
    /\ e.length >= 1
    /\ e.pan <= 12 \/ e.pan = PROPERTY_UNUSED

\* C10: the song's events and instruments are normalized, the pitch a channel holds is
\* a pitch 0..95 or the sentinel, and no table or voice-pair lookup goes out of range.
C10_Normalized ==
    /\ \A i \in 1..16 : \A j \in 1..Len(song.channels[i].events) :
            EventNormal(song.channels[i].events[j])
    /\ \A i \in 1..8 : song.channels[i].instrument < 100
    /\ \A i \in 9..16 : song.channels[i].instrument < 42
    /\ \A i \in 1..8 :
        /\ melodies[i].pitch < 96 \/ melodies[i].pitch = PROPERTY_UNUSED
        /\ percussions[i].pitch < 96 \/ percussions[i].pitch = PROPERTY_UNUSED
    /\ call.site \notin {"snd_pairs index out of range", "PANNING_TABLE index out of range"}

\* a file with a pitch of 96, a length of 0 and a pan of 13 is loaded and a note of it
\* is playing
C10_Witness ==
    /\ call.op = "write_next"
    /\ \E j \in 1..Len(song.channels[1].events) :
          /\ song.channels[1].events[j].pitch = PROPERTY_UNUSED
          /\ song.channels[1].events[j].volume = 64
          /\ song.channels[1].events[j].length = 1
          /\ song.channels[1].events[j].pan = 6
    /\ melodies[1].pitch < 96
    /\ melodies[1].index = Len(song.channels[1].events)

\* this step is a tick(), run to its end or aborted
TickRuns == pc = "idle" /\ samples_to_next_tick <= 0 /\ call'.op = "write_next"

\* C11: with repeat_end = 0, every tick completes without aborting and leaves
\* position = repeat_start, whatever repeat_start is.
C11_DegenerateLoop ==
    [][(TickRuns /\ song.repeat_end = U32(0)) =>
            call'.res = "ok" /\ position' = song.repeat_start]_vars

\* C12: in every reachable state, and so after every write_sample call, the voice's
\* sub_position is at least 0 and below 1 (sub_position is a numerator over SAMPLE_RATE).
C12_SubPositionBelowOne ==
    0 <= voice.sub_position /\ voice.sub_position < SAMPLE_RATE

\* a call took sub_position + position_increment to exactly 1, and left 0
C12_Witness ==
    /\ call.op = "write_sample" /\ call.res = "ok"
    /\ voice.position_increment = SAMPLE_RATE
    /\ voice.total_samples # U32(0)
    /\ voice.sub_position = 0

\* C13: write_sample on a voice with playing = false and silence_timer = 0 changes no
\* field of the voice and leaves the accumulator it was given.
C13_IdleNoOp ==
    [][(call'.op = "write_sample" /\ ~voice.playing /\ voice.silence_timer = 0) =>
            /\ call'.res = "ok"
            /\ voice' = voice
            /\ out' = call'.arg[1]]_vars

\* a voice that played out and fell silent was called again, with a non-zero accumulator
C13_Witness ==
    /\ call.op = "write_sample" /\ call.res = "ok"
    /\ ~voice.playing /\ voice.silence_timer = 0
    /\ voice.total_samples # U32(0)
    /\ call.arg[1] # OutZero
    /\ out = call.arg[1]

\* C14: set_volume and set_pan on a voice with total_samples = 0 make the current
\* volumes equal to the new targets and volume_ticks 0; with total_samples > 0 they
\* leave the current volumes and set volume_ticks to the ramp length they are given;
\* every write_sample call on a voice that is not idle takes one from volume_ticks
\* until it is 0.
C14_InstantOrRamp ==
    [][/\ call'.op \in {"set_volume", "set_pan"} =>
            /\ voice'.target_volume_left = LevelMul(voice'.volume, voice'.pan_left)
            /\ voice'.target_volume_right = LevelMul(voice'.volume, voice'.pan_right)
            /\ IF voice.total_samples = U32(0)
               THEN /\ voice'.volume_left = Gain(voice'.target_volume_left)
                    /\ voice'.volume_right = Gain(voice'.target_volume_right)
                    /\ voice'.volume_ticks = 0
               ELSE /\ voice'.volume_left = voice.volume_left
                    /\ voice'.volume_right = voice.volume_right
                    /\ voice'.volume_ticks = call'.arg[2]
       /\ (call'.op = "write_sample" /\ call'.res = "ok"
                /\ (voice.playing \/ voice.silence_timer > 0)) =>
            voice'.volume_ticks = IF voice.volume_ticks > 0 THEN voice.volume_ticks - 1 ELSE 0
      ]_vars

\* a ramp of two calls, set on a voice that had run, is one call from its end
C14_Witness ==
    /\ call.op = "write_sample" /\ call.res = "ok"
    /\ voice.volume_ticks = 1
    /\ voice.volume_left.from # <<>>

\* len / inc of the voice, rounded up and rounded to the nearest integer
StopCallUp == (voice.data.len * SAMPLE_RATE + voice.position_increment - 1)
                    \div voice.position_increment

StopCallNearest == (2 * voice.data.len * SAMPLE_RATE + voice.position_increment)
                        \div (2 * voice.position_increment)

\* this step is write_sample call number k since a play(false) that found the voice not
\* playing with sub_position 0, and the voice has not stopped yet
OneShotCall(k) ==
    /\ call'.op = "write_sample" /\ call'.res = "ok"
    /\ notes[1].age >= 0 /\ voice.playing
    /\ k = notes[1].age + 1

\* the voice stops itself in this step
StopsItself == ~voice'.playing /\ voice'.silence_timer = 8

LoopingNeverStops ==
    (call'.op = "write_sample" /\ voice.playing /\ voice.looping) => voice'.playing

OnlyNoteOnAtZero ==
    /\ Len(song.channels[1].events) = 1
    /\ song.channels[1].events[1].position = U32(0)
    /\ song.channels[1].events[1].pitch # PROPERTY_UNUSED
    /\ song.channels[1].events[1].volume = PROPERTY_UNUSED
    /\ song.channels[1].events[1].pan = PROPERTY_UNUSED
    /\ \A i \in 2..16 : song.channels[i].events = <<>>

\* this step mixes output frame 0, without interpolation, right after the tick that
\* started the note
FirstFrameOfNote ==
    /\ pc = "mix" /\ frames = 0
    /\ call'.op = "write_next" /\ call'.res = "ok" /\ call'.arg = <<"None">>
    /\ OnlyNoteOnAtZero
    /\ pitch_alt_sound(melodies[1]).playing
    /\ pitch_alt_sound(melodies[1]).total_samples = U32(0)

\* C15: on a freshly loaded player, without interpolation, for a song whose only event
\* is a melody note-on at tick 0 with centre pan and unity volume, output frame 0 has
\* out_l = out_r and its magnitude is byte 0 of the active voice's wavetable over 128
\* (samples are kept as bytes, the division by 128 left implicit).
C15_FirstFrame ==
    [][FirstFrameOfNote =>
            /\ out'.l = out'.r
            /\ Len(out'.l) = 1
            /\ out'.l[1].gain = Gain(Level(0))
            /\ LET byte0 == DataAt(pitch_alt_sound(melodies[1]).data, 0)
                   frame0 == out'.l[1].sample[1]
               IN  frame0 \in {byte0, -byte0}]_vars

\* a voice without its volume state
QuietVoice(s) ==
    [s EXCEPT !.volume = LevelZero, !.pan_left = LevelZero, !.pan_right = LevelZero,
              !.volume_left = Gain(LevelZero), !.volume_right = Gain(LevelZero),
              !.target_volume_left = LevelZero, !.target_volume_right = LevelZero,
              !.volume_ticks = 0]

\* a melody channel without its event index, volume and pan, its voices without their
\* volume state
QuietMelody(m) ==
    [m EXCEPT !.index = 0, !.volume = 0, !.pan = 0,
              !.snd_pairs = [j \in 1..8 |-> <<QuietVoice(m.snd_pairs[j][1]),
                                               QuietVoice(m.snd_pairs[j][2])>>]]

QuietPercussion(p) ==
    [p EXCEPT !.index = 0, !.volume = 0, !.pan = 0, !.sound = QuietVoice(@)]

\* channel i consumes an event without a pitch in the tick that is due
DueSentinel(i) ==
    /\ MelodyDue(melodies[i], song.channels[i], position)
    /\ song.channels[i].events[melodies[i].index + 1].pitch = PROPERTY_UNUSED

DuePercussionSentinel(i) ==
    /\ PercussionDue(percussions[i], song.channels[8 + i], position)
    /\ song.channels[8 + i].events[percussions[i].index + 1].pitch = PROPERTY_UNUSED

\* C17: a tick that consumes an event whose pitch is PROPERTY_UNUSED leaves the channel
\* and its voices as a tick without an event does (for a melody channel the note-length
\* countdown alone; for a percussion channel nothing), apart from the event index, the
\* channel's volume and pan and the voices' volume state: no pitch, alt or note length
\* is changed and no voice is started, stopped, retriggered or retuned by the event.
C17_SentinelKeepsVoice ==
    [][Ticked =>
        \A i \in 1..8 :
            /\ DueSentinel(i) =>
                    QuietMelody(melodies'[i]) =
                        QuietMelody(Expire(melodies[i], song.channels[i].pizzicato))
            /\ DuePercussionSentinel(i) =>
                    QuietPercussion(percussions'[i]) =
                        QuietPercussion(percussions[i])]_vars

\* a tick has just consumed an event without a pitch while a note was held: the note's
\* voice still plays, and the event's volume started a ramp
C17_Witness ==
    \E i \in 1..8 :
        /\ pc = "mix" /\ melodies[i].index > 0
        /\ LET event == song.channels[i].events[melodies[i].index]
           IN  /\ event.pitch = PROPERTY_UNUSED
               /\ event.volume # PROPERTY_UNUSED
               /\ event.position = last_position
        /\ melodies[i].pitch # PROPERTY_UNUSED
        /\ pitch_alt_sound(melodies[i]).playing
        /\ pitch_alt_sound(melodies[i]).volume_ticks = volume_ramp

\* the events' positions increase strictly
Increasing(events) ==
    \A k \in 1..(Len(events) - 1) : U32Lt(events[k].position, events[k + 1].position)

\* the channel has an event at the song position
EventAt(events, pos) == \E k \in 1..Len(events) : events[k].position = pos

\* C18: in a song with strictly increasing event positions and repeat_start <
\* repeat_end, every tick consumes, on each channel, the event whose position is the
\* song position of the tick, and consumes no event when the channel has none there.
\* The ticks of a pass visit every position of the played range once (C1), so each event
\* in the range is consumed exactly once a pass, at its own position.
C18_EventsAtTheirTick ==
    [][(Ticked /\ U32Lt(song.repeat_start, song.repeat_end)
               /\ \A c \in 1..16 : Increasing(song.channels[c].events)) =>
        \A i \in 1..8 :
            /\ MelodyDue(melodies[i], song.channels[i], position)
                    <=> EventAt(song.channels[i].events, position)
            /\ PercussionDue(percussions[i], song.channels[8 + i], position)
                    <=> EventAt(song.channels[8 + i].events, position)]_vars

\* the third tick of a song that loops over position 1 alone: the note at position 1
\* has been started again on the second pass
C18_Witness ==
    /\ pc = "mix" /\ frames = 2
    /\ song.repeat_start = U32(1) /\ song.repeat_end = U32(2)
    /\ last_position = U32(1) /\ position = U32(1)
    /\ \E i \in 1..8 : notes[i].age = 0 /\ Len(song.channels[i].events) > 1

\* percussion channel i consumes a note-on in the tick that is due
DuePercussionNoteOn(i) ==
    /\ PercussionDue(percussions[i], song.channels[8 + i], position)
    /\ song.channels[8 + i].events[percussions[i].index + 1].pitch # PROPERTY_UNUSED

\* C20: for every percussion note-on with pitch p in 0..95 the tick completes and the
\* voice's frequency is p * 800 + 100.
C20_PercussionFrequency ==
    [][TickRuns =>
        \A i \in 1..8 :
            DuePercussionNoteOn(i) =>
                /\ call'.res = "ok"
                /\ percussions'[i].sound.frequency =
                        song.channels[8 + i].events[percussions[i].index + 1].pitch * 800 + 100
      ]_vars

\* k * 44100 * tempo_ms / 1000, rounded up
TickFrame(k, tempo_ms) == (k * 441 * tempo_ms + 9) \div 10

\* C19: with tempo_ms >= 1, tick number k (k = 0, 1, 2, ..) of a new player runs just
\* before output frame ceil(k * 44100 * tempo_ms / 1000) is rendered.  (A frame runs at
\* most one tick: Player::write_sample tests the counter once a frame.)
C19_TickTimes ==
    [][(Ticked /\ song.tempo_ms >= 1) =>
            frames = TickFrame(position[2], song.tempo_ms)]_vars

\* C21: between two initializations of a voice no write_sample call aborts, and none
\* brings total_samples back to 0 once it is above 0, so that set_volume and set_pan
\* never again apply at once.
C21_TotalSamplesStaysPositive ==
    [][call'.op = "write_sample" =>
            /\ call'.res = "ok"
            /\ (voice.total_samples # U32(0) => voice'.total_samples # U32(0))]_vars

\* the wavetable entries that are compared one by one
MaxWave == 40

\* C22: after a successful read_song (load_instruments), for every melody channel, every
\* group g and both voices of the pair, the wavetable has SIZE_TABLE[g] samples (times
\* 4 + 4 * g on a pizzicato channel), sample k is the sample (k * (256 / SIZE_TABLE[g]))
\* mod 256 of the instrument's waveform (compared for k < MaxWave), and the two voices
\* hold the same data.
C22_Wavetables ==
    (call.op = "read_song" /\ call.res = "ok") =>
        \A i \in 1..8, g \in 0..7 :
            LET pair == melodies[i].snd_pairs[g + 1]
                size == SIZE_TABLE[g + 1]
                len == IF song.channels[i].pizzicato THEN size * (4 + 4 * g) ELSE size
                wave(n) == MelodyWaveAt(melody_wave_data, song.channels[i].instrument * 256 + n)
            IN  /\ pair[1].data.len = len
                /\ pair[2].data = pair[1].data
                /\ \A k \in 0..(Min(len, MaxWave) - 1) :
                        DataAt(pair[1].data, k) = wave((k * (256 \div size)) % 256)

\* a pizzicato song has been loaded after a soundbank: group 7 of channel 1 holds 256
\* samples, and its sample 32 is the waveform's sample 0 again
C22_Witness ==
    /\ call.op = "read_song" /\ call.res = "ok"
    /\ melody_wave_data # 0
    /\ song.channels[1].pizzicato
    /\ melodies[1].snd_pairs[8][1].data.len = 256
    /\ DataAt(melodies[1].snd_pairs[8][1].data, 32) = DataAt(melodies[1].snd_pairs[8][1].data, 0)

\* C23: a voice with playing = false and silence_timer = 0 has eight ring samples 0.
C23_InactiveRingIsZero ==
    (~voice.playing /\ voice.silence_timer = 0) => voice.samples = RingZero

\* a voice that ran has fallen silent, and its last sample of silence has just been
\* written
C23_Witness ==
    /\ call.op = "write_sample" /\ call.res = "ok"
    /\ ~voice.playing /\ voice.silence_timer = 0
    /\ voice.total_samples # U32(0)
    /\ out # call.arg[1]

\* C24: no voice takes a remainder by a zero length, every ring index is in 0..7, a
\* looping voice that plays has a wavetable that is not empty (so the indices
\* write_sample reads are below the length), and after the voices' write_sample calls
\* of a frame a voice that plays has position < len(data); the empty percussion slots
\* of the soundbank included.
C24_ReadsInBounds ==
    /\ call.site # "wrapping_rem by zero"
    /\ \A k \in 1..136 :
            LET s == VoicesInOrder[k]
            IN  /\ s.ring \in 0..7
                /\ (s.playing /\ s.looping) => s.data.len > 0
                /\ (pc = "idle" /\ s.playing) => s.position < s.data.len

\* a percussion voice of an empty soundbank slot was started by a note-on and a frame
\* was rendered with it
C24_Witness ==
    /\ call.op = "write_next" /\ call.res = "ok" /\ pc = "idle"
    /\ \E i \in 1..8 :
            /\ percussions[i].sound.data.len = 0
            /\ percussions[i].sound.total_samples # U32(0)
            /\ ~percussions[i].sound.playing

\* the voices of melody channel i that play looping, as <<group, alt>>
LoopingVoices(i) ==
    { v \in (0..7) \X (0..1) :
        /\ melodies[i].snd_pairs[v[1] + 1][v[2] + 1].playing
        /\ melodies[i].snd_pairs[v[1] + 1][v[2] + 1].looping }

\* C25: a melody channel has at most one voice that plays looping; if it has one, the
\* channel's pitch is not the sentinel and the voice is the one at (pitch / 12, alt);
\* a pizzicato channel has none.
C25_OneLoopingVoice ==
    \A i \in 1..8 :
        /\ Cardinality(LoopingVoices(i)) <= 1
        /\ LoopingVoices(i) # {} =>
                /\ melodies[i].pitch # PROPERTY_UNUSED
                /\ LoopingVoices(i) = { <<melodies[i].pitch \div 12, melodies[i].alt>> }
        /\ song.channels[i].pizzicato => LoopingVoices(i) = {}

\* a note-on over a held note: the voice of the old note (group 7, alt 0) still plays,
\* released, while the voice of the new note (group 0, alt 1) plays looping
C25_Witness ==
    /\ call.op = "write_next" /\ call.res = "ok"
    /\ LoopingVoices(1) = { <<0, 1>> }
    /\ melodies[1].snd_pairs[8][1].playing
    /\ ~melodies[1].snd_pairs[8][1].looping

\* melody channel i has consumed no note-on since the last successful read_song, this
\* step included
NoNoteOnYet(i) == notes'[i] = NoNote

\* C26: after a successful read_song no voice of a channel starts playing before the
\* channel consumes a note-on of the loaded song: a melody voice goes from not playing
\* to playing only in or after the tick of the channel's first note-on, a percussion
\* voice only in a tick that consumes a note-on of its channel.
C26_SilentUntilNoteOn ==
    [][/\ \A i \in 1..8 :
            NoNoteOnYet(i) =>
                \A j \in 1..8, a \in 1..2 :
                    melodies'[i].snd_pairs[j][a].playing => melodies[i].snd_pairs[j][a].playing
       /\ \A i \in 1..8 :
            (percussions'[i].sound.playing /\ ~percussions[i].sound.playing) =>
                TickRuns /\ DuePercussionNoteOn(i)
      ]_vars
====
